---- MODULE Spec2Model ----
(***************************************************************************)
(* Verification model of the codegreen hardware energy measurement engine: *)
(* the multi-source session (core/src/measurement/mod.rs), the core        *)
(* measurement session and energy monitor (core/src/lib.rs), the plugin    *)
(* registry and the default plugin implementation (hardware-plugins), the  *)
(* Intel RAPL MSR plugin and the adapter helper functions.                 *)
(*                                                                         *)
(* Energy readings are f64 in the source; the model uses integers, on      *)
(* which f64 addition and subtraction are exact in the modelled range.     *)
(* Instants and UTC timestamps are integers on one time axis.              *)
(*                                                                         *)
(* Each component has a specification of its own over the shared state:    *)
(* SpecMulti (MultiSourceSession), SpecSession (MeasurementSession),       *)
(* SpecRegistry (PluginRegistry), SpecMonitor (core EnergyMonitor),        *)
(* SpecRapl (IntelRAPLPlugin), SpecMsr (the plugin's register reads),      *)
(* SpecDefault (default HardwarePlugin implementation) and SpecDelta (the  *)
(* pure BaseAdapter helpers and the sessions made of two measurements,     *)
(* whose inputs the initial state draws). Every action records its step    *)
(* in op and its result in ret, except the clock's Tick, the actions of     *)
(* MultiSourceSession, whose methods return nothing, and the steps of the  *)
(* tasks that call an AsyncHardwarePlugin (a call of the instrumentation    *)
(* EnergyMonitor that is suspended at an await records that, and no        *)
(* result). SpecAdapter (the adapters), SpecInstr (the instrumentation      *)
(* EnergyMonitor), SpecTimeout (a core EnergyMonitor whose plugin read can *)
(* block) and SpecAsync (the tasks calling one AsyncHardwarePlugin)        *)
(* complete the list.                                                      *)
(***************************************************************************)
EXTENDS Integers, Sequences, FiniteSets, TLC

\* ------------------------------------------------------------------ bounds
\* Largest joule reading a caller-built measurement carries.
MaxJoules == 2
\* Largest value of the clock, and so of a measurement's timestamp.
MaxTime == 1

\* Width in bits of the wrapping energy counter in the model. The hardware
\* counter has 32 bits; TLC's integers are 32-bit signed, so the model keeps
\* the wrap-around at a width whose modulus it can represent.
CounterBits == 8
\* Raw counter readings lie within MaxRaw of zero or of the wrap-around.
MaxRaw == 5
\* Most plugins a caller registers on top of the compiled-in ones.
MaxRegistered == 1
\* Largest number of plugins registered with the instrumentation EnergyMonitor.
MaxInstrPlugins == 2
\* Number of tasks that call one AsyncHardwarePlugin.
MaxCallers == 3

\* Source identifiers used as map keys by the sessions.
Sources == {"source1", "source2"}

Joules == 0..MaxJoules
Times == 0..MaxTime

\* Option<T>: None is the empty sequence, Some(x) the one-element sequence.
None == <<>>
Some(x) == <<x>>
IsSome(o) == o # None
Unwrap(o) == o[1]

\* A HashMap is a function whose domain is the set of keys present.
EmptyMap == [k \in {} |-> 0]
\* HashMap::insert: inserts or overwrites the entry of key k.
Insert(m, k, v) == [x \in (DOMAIN m) \cup {k} |-> IF x = k THEN v ELSE m[x]]

\* Result<T, E>
Ok(v) == [ok |-> TRUE, value |-> v]
Err(e) == [ok |-> FALSE, error |-> e]

\* The record of a call: the operation's name and the inputs it was given.
NoCall == [name |-> "none"]

VARIABLES
    now,              \* the clock read by Instant::now() / Utc::now()
    multi,            \* the MultiSourceSession (core/src/measurement/mod.rs)
    session,          \* the caller's MeasurementSession (core/src/lib.rs)
    plugins,          \* PluginRegistry.plugins of the EnergyMonitor's registry
    device_present,   \* per compiled-in variant: is its hardware backend there
    available_result, \* what the last get_available_plugins() call returned
    rapl,             \* the IntelRAPLPlugin (plugins/intel_rapl.rs)
    msr,              \* the MSR device file the IntelRAPLPlugin reads, and
                      \* what the registers behind it hold
    started,          \* per compiled-in plugin: start_measurement() was called
                      \* and stop_measurement() has not been called since
    pair,             \* the two Measurements handed to the BaseAdapter helpers
    instr,            \* the instrumentation EnergyMonitor (hardware/mod.rs)
    instr_call,       \* the call of that monitor which is suspended at an
                      \* await, if there is one
    inflight,         \* the core EnergyMonitor call whose plugin read has not
                      \* returned, if there is one
    mutex,            \* one AsyncHardwarePlugin: its tokio Mutex and its callers
    op,               \* the last call made (name and inputs)
    ret               \* what the last call returned

multiVars == <<multi>>
coreVars == <<session, plugins, device_present, available_result>>
raplVars == <<rapl, msr>>
pluginVars == <<started, pair>>
instrVars == <<instr, instr_call, inflight, mutex>>
callVars == <<op, ret>>
vars == <<now, multi, session, plugins, device_present, available_result,
          rapl, msr, started, pair, instr, instr_call, inflight, mutex,
          op, ret>>

\* ------------------------------------------------ MultiSourceSession
\* EnergyMeasurement values: any reading of any source, taken at time t
\* (source is the map key).
EnergyMeasurementsAt(t) ==
    [source : Sources, joules : Joules, timestamp : {t}]

\* MultiSourceSession::new
MultiSourceSession_new(t) ==
    [start_measurements |-> EmptyMap,
     end_measurements   |-> EmptyMap,
     start_time         |-> t,
     end_time           |-> None]

\* Sum of f(k) over the keys of a finite set, folded one key at a time.
RECURSIVE FoldSum(_, _)
FoldSum(S, f) ==
    IF S = {} THEN 0
    ELSE LET k == CHOOSE x \in S : TRUE
         IN f[k] + FoldSum(S \ {k}, f)

\* A bug a fold over the start map could have: a source with no end entry
\* is counted with an end reading of zero instead of being skipped.
total_energy_MissingEndAsZero(s) ==
    FoldSum(DOMAIN s.start_measurements,
            [k \in DOMAIN s.start_measurements |->
                (IF k \in DOMAIN s.end_measurements
                 THEN s.end_measurements[k].joules ELSE 0)
                - s.start_measurements[k].joules])

\* MultiSourceSession::total_energy: iterate the start map, keep the
\* sources that end_measurements.get() finds, sum end.joules - start.joules.
total_energy(s) ==
    LET paired == {k \in DOMAIN s.start_measurements :
                      k \in DOMAIN s.end_measurements}
    IN FoldSum(paired,
               [k \in paired |->
                   s.end_measurements[k].joules - s.start_measurements[k].joules])

\* MultiSourceSession::add_start_measurement: insert under measurement.source.
MultiSourceSession_add_start_measurement(s, measurement) ==
    [s EXCEPT !.start_measurements =
        Insert(s.start_measurements, measurement.source, measurement)]

\* MultiSourceSession::add_end_measurement: insert under measurement.source.
MultiSourceSession_add_end_measurement(s, measurement) ==
    [s EXCEPT !.end_measurements =
        Insert(s.end_measurements, measurement.source, measurement)]

\* MultiSourceSession::end: the end time is set to Instant::now(), whether
\* or not one was recorded before.
MultiSourceSession_end(s, t) == [s EXCEPT !.end_time = Some(t)]

\* A bug duration() could have: a session that was not ended reports a
\* duration of zero instead of no duration.
duration_ZeroBeforeEnd(s) ==
    IF IsSome(s.end_time)
    THEN Some(Unwrap(s.end_time) - s.start_time)
    ELSE Some(0)

\* MultiSourceSession::duration
duration(s) ==
    IF IsSome(s.end_time)
    THEN Some(Unwrap(s.end_time) - s.start_time)
    ELSE None

\* A missing guard: the division is done whatever the duration is.
average_power_Unguarded(s) ==
    IF IsSome(duration(s))
    THEN Some([num |-> total_energy(s), den |-> Unwrap(duration(s))])
    ELSE None

\* MultiSourceSession::average_power: duration().map of total_energy() over
\* the duration when the duration is positive and of 0.0 otherwise. The f64
\* quotient is kept exact as numerator over denominator.
average_power(s) ==
    IF IsSome(duration(s))
    THEN Some(IF Unwrap(duration(s)) > 0
              THEN [num |-> total_energy(s), den |-> Unwrap(duration(s))]
              ELSE [num |-> 0, den |-> 1])
    ELSE None

\* A bug get_source_sessions could have: a source with no end entry gets a
\* session whose end is its start.
get_source_sessions_UnpairedAsEmpty(s) ==
    {[start        |-> s.start_measurements[k],
      end          |-> IF k \in DOMAIN s.end_measurements
                       THEN s.end_measurements[k] ELSE s.start_measurements[k],
      duration     |-> IF k \in DOMAIN s.end_measurements
                          /\ s.end_measurements[k].timestamp >= s.start_measurements[k].timestamp
                       THEN s.end_measurements[k].timestamp - s.start_measurements[k].timestamp
                       ELSE 0,
      total_energy |-> IF k \in DOMAIN s.end_measurements
                       THEN s.end_measurements[k].joules - s.start_measurements[k].joules
                       ELSE 0] :
        k \in DOMAIN s.start_measurements}

\* MultiSourceSession::get_source_sessions: one MeasurementSession per source
\* of the start map that end_measurements.get() finds. The Vec's order is the
\* HashMap's iteration order, so the result is modelled as the set of its
\* elements (two elements differ at least in start.source).
\* Instant::duration_since saturates at zero.
get_source_sessions(s) ==
    {[start        |-> s.start_measurements[k],
      end          |-> s.end_measurements[k],
      duration     |-> IF s.end_measurements[k].timestamp >= s.start_measurements[k].timestamp
                       THEN s.end_measurements[k].timestamp - s.start_measurements[k].timestamp
                       ELSE 0,
      total_energy |-> s.end_measurements[k].joules - s.start_measurements[k].joules] :
        k \in {x \in DOMAIN s.start_measurements : x \in DOMAIN s.end_measurements}}

\* A call of MultiSourceSession::add_start_measurement with a reading taken now.
MsAddStartMeasurement ==
    \E m \in EnergyMeasurementsAt(now) :
        /\ multi' = MultiSourceSession_add_start_measurement(multi, m)
        /\ UNCHANGED <<now, coreVars, raplVars, pluginVars, instrVars, callVars>>

\* A call of MultiSourceSession::add_end_measurement with a reading taken now.
MsAddEndMeasurement ==
    \E m \in EnergyMeasurementsAt(now) :
        /\ multi' = MultiSourceSession_add_end_measurement(multi, m)
        /\ UNCHANGED <<now, coreVars, raplVars, pluginVars, instrVars, callVars>>

\* A call of MultiSourceSession::end.
MsEnd ==
    /\ multi' = MultiSourceSession_end(multi, now)
    /\ UNCHANGED <<now, coreVars, raplVars, pluginVars, instrVars, callVars>>

\* ------------------------------------------------ core MeasurementSession
\* hardware_plugins::Measurement values: any reading, taken at time t.
MeasurementsAt(t) == [timestamp : {t}, joules : Joules]

\* MeasurementSession::new
MeasurementSession_new(t) ==
    [start_measurements |-> EmptyMap,
     end_measurements   |-> EmptyMap,
     start              |-> t,
     end                |-> t,
     duration           |-> 0,
     total_energy       |-> 0]

\* A bug the fold could have: the start reading is not subtracted.
calculate_total_energy_EndOnly(s) ==
    LET paired == {k \in DOMAIN s.end_measurements :
                      k \in DOMAIN s.start_measurements}
    IN [s EXCEPT !.total_energy =
           FoldSum(paired, [k \in paired |-> s.end_measurements[k].joules])]

\* MeasurementSession::calculate_total_energy: iterate the end map and add
\* end.joules - start.joules for each source start_measurements.get() finds.
calculate_total_energy(s) ==
    LET paired == {k \in DOMAIN s.end_measurements :
                      k \in DOMAIN s.start_measurements}
    IN [s EXCEPT !.total_energy =
           FoldSum(paired,
                   [k \in paired |->
                       s.end_measurements[k].joules - s.start_measurements[k].joules])]

\* A bug add_start_measurement could have: the session's start is moved to
\* the measurement's timestamp.
add_start_measurement_MovesStart(s, source, measurement) ==
    [s EXCEPT !.start_measurements = Insert(s.start_measurements, source, measurement),
              !.start = measurement.timestamp]

\* MeasurementSession::add_start_measurement: inserts, and recomputes nothing.
add_start_measurement(s, source, measurement) ==
    [s EXCEPT !.start_measurements = Insert(s.start_measurements, source, measurement)]

\* A bug add_end_measurement could have: the delta of the source is added to
\* the running total instead of the total being recomputed from the maps.
add_end_measurement_Accumulating(s, source, measurement) ==
    LET timestamp == measurement.timestamp
        delta == IF source \in DOMAIN s.start_measurements
                 THEN measurement.joules - s.start_measurements[source].joules
                 ELSE 0
    IN [s EXCEPT !.end_measurements = Insert(s.end_measurements, source, measurement),
                 !.end = timestamp,
                 !.duration = IF timestamp - s.start >= 0
                              THEN timestamp - s.start ELSE 0,
                 !.total_energy = s.total_energy + delta]

\* MeasurementSession::add_end_measurement.
\* signed_duration_since(..).to_std() fails on a negative duration and
\* unwrap_or_default() then gives zero.
add_end_measurement(s, source, measurement) ==
    LET timestamp == measurement.timestamp
        s1 == [s EXCEPT !.end_measurements = Insert(s.end_measurements, source, measurement),
                        !.end = timestamp,
                        !.duration = IF timestamp - s.start >= 0
                                     THEN timestamp - s.start ELSE 0]
    IN calculate_total_energy(s1)

\* MeasurementSession::get_total_energy
get_total_energy(s) == s.total_energy

\* MeasurementSession::get_measurements
get_measurements(s, source) ==
    IF source \in DOMAIN s.start_measurements /\ source \in DOMAIN s.end_measurements
    THEN Some(<<s.start_measurements[source], s.end_measurements[source]>>)
    ELSE None

\* A caller constructs a fresh session.
NewSession ==
    /\ session' = MeasurementSession_new(now)
    /\ op' = [name |-> "MeasurementSession::new"]
    /\ ret' = None
    /\ UNCHANGED <<now, multiVars, raplVars, pluginVars, instrVars, plugins, device_present, available_result>>

\* A caller adds a start measurement, read now, to the session it holds.
AddStartMeasurement ==
    \E source \in Sources, m \in MeasurementsAt(now) :
        /\ session' = add_start_measurement(session, source, m)
        /\ op' = [name |-> "add_start_measurement", source |-> source]
        /\ ret' = None
        /\ UNCHANGED <<now, multiVars, raplVars, pluginVars, instrVars, plugins, device_present, available_result>>

\* A caller adds an end measurement, read now, to the session it holds.
AddEndMeasurement ==
    \E source \in Sources, m \in MeasurementsAt(now) :
        /\ session' = add_end_measurement(session, source, m)
        /\ op' = [name |-> "add_end_measurement", source |-> source]
        /\ ret' = None
        /\ UNCHANGED <<now, multiVars, raplVars, pluginVars, instrVars, plugins, device_present, available_result>>

\* ------------------------------------------------ plugins and PluginRegistry
\* Names of plugins a caller supplies (test doubles, future backends).
ExternalNames == {"mock"}

\* BasePlugin::new: a compiled-in plugin starts enabled; nothing changes the
\* flag afterwards.
BasePlugin_new(name, device_path) ==
    [name |-> name, variant |-> "default", enabled |-> TRUE, device_path |-> device_path]

\* The four variant constructors; each returns Ok.
IntelRaplPlugin_new == Ok(BasePlugin_new("intel-rapl", "/sys/class/powercap/intel-rapl"))
AmdEnergyPlugin_new == Ok(BasePlugin_new("amd-energy", "/sys/class/powercap/amd-energy"))
ArmEnergyPlugin_new == Ok(BasePlugin_new("arm-energy", "/sys/class/powercap/arm-energy"))
NvidiaGpuPlugin_new == Ok(BasePlugin_new("nvidia-gpu", "/sys/class/drm/card0/device/power"))

DefaultNames == {"intel-rapl", "amd-energy", "arm-energy", "nvidia-gpu"}

\* A plugin a caller supplies: enabled is what its is_available() answers now.
ExternalPlugins ==
    [name : ExternalNames, variant : {"external"}, enabled : BOOLEAN, device_path : {""}]

\* PluginRegistry::register_plugin
register_plugin(ps, plugin) == Append(ps, plugin)

\* A bug the body of PluginRegistry::new could have: the first constructor
\* that fails ends the construction (as the ? operator would).
PluginRegistry_of_StopAtFailure(intel, amd, arm, nvidia) ==
    LET r0 == <<>>
        r1 == IF intel.ok THEN register_plugin(r0, intel.value) ELSE r0
        r2 == IF intel.ok /\ amd.ok THEN register_plugin(r1, amd.value) ELSE r1
        r3 == IF intel.ok /\ amd.ok /\ arm.ok THEN register_plugin(r2, arm.value) ELSE r2
        r4 == IF intel.ok /\ amd.ok /\ arm.ok /\ nvidia.ok
              THEN register_plugin(r3, nvidia.value) ELSE r3
    IN r4

\* The body of PluginRegistry::new, given what the four constructors
\* returned: four `if let Ok(plugin)` blocks, one after the other.
PluginRegistry_of(intel, amd, arm, nvidia) ==
    LET r0 == <<>>
        r1 == IF intel.ok THEN register_plugin(r0, intel.value) ELSE r0
        r2 == IF amd.ok THEN register_plugin(r1, amd.value) ELSE r1
        r3 == IF arm.ok THEN register_plugin(r2, arm.value) ELSE r2
        r4 == IF nvidia.ok THEN register_plugin(r3, nvidia.value) ELSE r3
    IN r4

\* PluginRegistry::new: each variant whose constructor returns Ok is registered.
PluginRegistry_new ==
    PluginRegistry_of(IntelRaplPlugin_new, AmdEnergyPlugin_new,
                      ArmEnergyPlugin_new, NvidiaGpuPlugin_new)

\* HardwarePlugin::is_available. The default implementation answers
\* base.is_enabled(); it consults neither the device path nor is_supported().
is_available(plugin) == plugin.enabled

\* is_rapl_available, is_amd_energy_available, is_arm_energy_available,
\* is_nvidia_gpu_available: each returns false.
is_supported(plugin) == FALSE

\* The positions of a plugin list, in order.
Indices(ps) == [i \in 1..Len(ps) |-> i]

\* A caching bug: the list computed by an earlier call is handed out again.
get_available_plugins_Cached(ps) ==
    IF IsSome(available_result)
    THEN Unwrap(available_result)
    ELSE SelectSeq(Indices(ps), LAMBDA i : is_available(ps[i]))

\* PluginRegistry::get_available_plugins: the registered plugins, in
\* registration order, that answer is_available() now (as positions).
get_available_plugins(ps) ==
    SelectSeq(Indices(ps), LAMBDA i : is_available(ps[i]))

\* PluginRegistry::get_plugins: every registered plugin.
get_plugins(ps) == Indices(ps)

\* The plugins a caller registered (those after the compiled-in ones).
NumRegistered == Cardinality({i \in 1..Len(plugins) : plugins[i].variant = "external"})

\* EnergyMonitor::new: a caller makes a new monitor, and so a new registry.
NewRegistry ==
    /\ plugins' = PluginRegistry_new
    /\ op' = [name |-> "PluginRegistry::new"]
    /\ ret' = None
    /\ UNCHANGED <<now, multiVars, raplVars, pluginVars, instrVars, session, device_present, available_result>>

\* EnergyMonitor::register_plugin / PluginRegistry::register_plugin
RegisterPlugin ==
    \E plugin \in ExternalPlugins :
        /\ NumRegistered < MaxRegistered
        /\ plugins' = register_plugin(plugins, plugin)
        /\ op' = [name |-> "register_plugin"]
        /\ ret' = None
        /\ UNCHANGED <<now, multiVars, raplVars, pluginVars, instrVars, session, device_present, available_result>>

\* The two sources of the end-to-end setup, A and B: available plugins with
\* distinct names.
EndToEndSources ==
    [name : {"A", "B"}, variant : {"external"}, enabled : {TRUE}, device_path : {""}]

\* EnergyMonitor::register_plugin called for a source of the end-to-end
\* setup that is not registered yet.
RegisterSource ==
    \E plugin \in EndToEndSources :
        /\ \A i \in 1..Len(plugins) : plugins[i].name # plugin.name
        /\ plugins' = register_plugin(plugins, plugin)
        /\ op' = [name |-> "register_plugin"]
        /\ ret' = None
        /\ UNCHANGED <<now, multiVars, raplVars, pluginVars, instrVars, session, device_present, available_result>>

\* Hardware presence is time-variant: a supplied plugin's is_available()
\* changes its answer.
SetAvailability ==
    \E i \in 1..Len(plugins) :
        /\ plugins[i].variant = "external"
        /\ plugins' = [plugins EXCEPT ![i].enabled = ~plugins[i].enabled]
        /\ op' = [name |-> "environment"]
        /\ ret' = None
        /\ UNCHANGED <<now, multiVars, raplVars, pluginVars, instrVars, session, device_present, available_result>>

\* The hardware backend of a compiled-in variant appears or disappears.
HotPlug ==
    \E n \in DefaultNames :
        /\ device_present' = [device_present EXCEPT ![n] = ~device_present[n]]
        /\ op' = [name |-> "environment"]
        /\ ret' = None
        /\ UNCHANGED <<now, multiVars, raplVars, pluginVars, instrVars, session, plugins, available_result>>

\* A call of PluginRegistry::get_available_plugins.
GetAvailablePlugins ==
    /\ available_result' = Some(get_available_plugins(plugins))
    /\ op' = [name |-> "get_available_plugins"]
    /\ ret' = None
    /\ UNCHANGED <<now, multiVars, raplVars, pluginVars, instrVars, session, plugins, device_present>>

\* ------------------------------------------------ core EnergyMonitor
\* The readings a supplied plugin reports: none, and the largest.
ReadJoules == {0, MaxJoules}

\* What a supplied plugin's get_measurement() can return: an error, or a
\* Measurement with the reading and the timestamp the plugin gives it (the
\* time of the read, an earlier time or a later one).
ReadOutcomes ==
    {Err("SensorError")} \cup {Ok(m) : m \in [timestamp : Times, joules : ReadJoules]}

\* HardwarePlugin::get_measurement. The default implementation returns
\* Ok(Measurement { timestamp: Utc::now(), joules: 0.0 }); a supplied plugin
\* returns what its backend gives (outcome).
get_measurement(plugin, outcome, t) ==
    IF plugin.variant = "default"
    THEN Ok([timestamp |-> t, joules |-> 0])
    ELSE outcome

\* The positions of the supplied plugins, whose reads the environment decides.
ExternalIdx(ps) == {i \in 1..Len(ps) : ps[i].variant = "external"}

\* The body of the for loop of start_measurement (add_start TRUE) and of
\* stop_measurement (add_start FALSE) from position k of list on: read the
\* plugin; on Err return it at once (the ? operator), else add the
\* measurement under plugin.name() and go on. The result carries the
\* positions read so far.
RECURSIVE MeasureLoop(_, _, _, _, _, _, _, _)
MeasureLoop(ps, list, k, outcomes, t, s, read, add_start) ==
    IF k > Len(list)
    THEN [result |-> Ok(s), read |-> read]
    ELSE LET i == list[k]
             r == get_measurement(ps[i], outcomes[i], t)
         IN IF ~r.ok
            THEN [result |-> Err(r.error), read |-> Append(read, i)]
            ELSE MeasureLoop(ps, list, k + 1, outcomes, t,
                             IF add_start
                             THEN add_start_measurement(s, ps[i].name, r.value)
                             ELSE add_end_measurement(s, ps[i].name, r.value),
                             Append(read, i), add_start)

\* EnergyMonitor::start_measurement: a new session, then one read per plugin
\* of self.registry.get_plugins().
start_measurement(ps, outcomes, t) ==
    MeasureLoop(ps, get_plugins(ps), 1, outcomes, t,
                MeasurementSession_new(t), <<>>, TRUE)

\* EnergyMonitor::stop_measurement: one read per plugin of
\* self.registry.get_plugins(), added to the session passed in.
stop_measurement(ps, s, outcomes, t) ==
    MeasureLoop(ps, get_plugins(ps), 1, outcomes, t, s, <<>>, FALSE)

\* A call of EnergyMonitor::start_measurement. On Ok the caller holds the
\* returned session; on Err it keeps the session it held. The record of the
\* call keeps the plugins read and the time of the call.
MonitorStart ==
    \E outcomes \in [ExternalIdx(plugins) -> ReadOutcomes] :
        LET out == start_measurement(plugins, outcomes, now)
        IN /\ session' = IF out.result.ok THEN out.result.value ELSE session
           /\ op' = [name     |-> "EnergyMonitor::start_measurement",
                     read     |-> out.read,
                     at       |-> now]
           /\ ret' = out.result
           /\ UNCHANGED <<now, multiVars, raplVars, pluginVars, instrVars, plugins, device_present, available_result>>

\* A call of EnergyMonitor::stop_measurement with (a clone of) the session
\* the caller holds. On Ok the caller holds the returned session; on Err the
\* session passed in is dropped and the caller keeps what it held. The
\* record of the call also keeps, when the call before it was a
\* start_measurement that returned the session passed in, the time of that
\* call (after).
MonitorStop ==
    \E outcomes \in [ExternalIdx(plugins) -> ReadOutcomes] :
        LET out == stop_measurement(plugins, session, outcomes, now)
        IN /\ session' = IF out.result.ok THEN out.result.value ELSE session
           /\ op' = [name     |-> "EnergyMonitor::stop_measurement",
                     read     |-> out.read,
                     at       |-> now,
                     after    |-> IF op.name = "EnergyMonitor::start_measurement" /\ ret.ok
                                  THEN Some(op.at)
                                  ELSE None]
           /\ ret' = out.result
           /\ UNCHANGED <<now, multiVars, raplVars, pluginVars, instrVars, plugins, device_present, available_result>>

\* A call of EnergyMonitor::start_measurement or stop_measurement reaches a
\* supplied plugin whose get_measurement() never returns. The loop calls
\* plugin.get_measurement() directly; nothing in it bounds the call or
\* abandons it, so no step takes the call out of this state.
MonitorReadBlocks ==
    \E name \in {"EnergyMonitor::start_measurement", "EnergyMonitor::stop_measurement"},
       i \in ExternalIdx(plugins) :
        /\ ~IsSome(inflight)
        /\ inflight' = Some([name |-> name, plugin |-> i])
        /\ op' = [name |-> "EnergyMonitor: read blocked", call |-> name]
        /\ ret' = None
        /\ UNCHANGED <<now, multiVars, coreVars, raplVars, pluginVars, instr, instr_call, mutex>>

\* ------------------------------------------------ IntelRAPLPlugin
MSR_POWER_UNIT == 1542
MSR_PKG_ENERGY_STATUS == 1553
MSR_DRAM_ENERGY_STATUS == 1561

\* An f64 the plugin computes, kept exact as numerator over denominator.
Ratio(n, d) == [num |-> n, den |-> d]

\* 64-bit words the device file can hold: zero; power exponent 3, energy
\* exponent 14, time exponent 10; the same with bits 4..7 set as well; power
\* exponent 3, energy exponent 17, time exponent 10 with bits 4..7, 13..15
\* and 20..23 set as well.
MsrWords ==
    {0,
     3 + 14 * 256 + 10 * 65536,
     3 + 240 + 14 * 256 + 10 * 65536,
     3 + 240 + 17 * 256 + 57344 + 10 * 65536 + 15 * 1048576}

\* The registers the plugin names.
Registers == {MSR_POWER_UNIT, MSR_PKG_ENERGY_STATUS, MSR_DRAM_ENERGY_STATUS}

\* The device file as open() and read_exact() see it: whether the path
\* exists, whether open() succeeds, whether it holds the 8 bytes read_exact
\* asks for, and the little-endian word at its start.
MsrStates == [exists : BOOLEAN, permitted : BOOLEAN, complete : BOOLEAN, word : MsrWords]

\* What the three registers hold, each at its own address of the file.
MsrRegisterStates == [Registers -> MsrWords]

\* IntelRAPLPlugin::new
IntelRAPLPlugin_new ==
    [power_units       |-> Ratio(0, 1),
     energy_units      |-> Ratio(0, 1),
     time_units        |-> Ratio(0, 1),
     last_measurement  |-> None,
     measurement_start |-> None]

\* A bug read_msr could have: the path is not looked at before open(), so a
\* missing device is reported as a failure to open it.
read_msr_NoExistsCheck(dev, reg) ==
    IF ~dev.exists \/ ~dev.permitted THEN Err("PermissionDenied")
    ELSE IF ~dev.complete THEN Err("SensorError")
    ELSE Ok(dev.word)

\* IntelRAPLPlugin::read_msr. The register number is not used: the file is
\* opened and its first 8 bytes are read.
read_msr(dev, reg) ==
    IF ~dev.exists THEN Err("DeviceNotFound")
    ELSE IF ~dev.permitted THEN Err("PermissionDenied")
    ELSE IF ~dev.complete THEN Err("SensorError")
    ELSE Ok(dev.word)

\* A wrong mask: the energy exponent is taken from four bits (0xF), not
\* five (0x1F).
read_power_unit_NarrowEnergyMask(p, dev) ==
    LET power_unit == read_msr(dev, MSR_POWER_UNIT)
    IN IF ~power_unit.ok THEN [plugin |-> p, result |-> power_unit]
       ELSE [plugin |-> [p EXCEPT
                 !.power_units  = Ratio(1, 2 ^ (power_unit.value % 16)),
                 !.energy_units = Ratio(1, 2 ^ ((power_unit.value \div 256) % 16)),
                 !.time_units   = Ratio(1, 2 ^ ((power_unit.value \div 65536) % 16))],
             result |-> Ok(None)]

\* IntelRAPLPlugin::read_power_unit: 1.0 / (1u64 << field) for the three fields.
read_power_unit(p, dev) ==
    LET power_unit == read_msr(dev, MSR_POWER_UNIT)
    IN IF ~power_unit.ok THEN [plugin |-> p, result |-> power_unit]
       ELSE [plugin |-> [p EXCEPT
                 !.power_units  = Ratio(1, 2 ^ (power_unit.value % 16)),
                 !.energy_units = Ratio(1, 2 ^ ((power_unit.value \div 256) % 32)),
                 !.time_units   = Ratio(1, 2 ^ ((power_unit.value \div 65536) % 16))],
             result |-> Ok(None)]

\* IntelRAPLPlugin::initialize
rapl_initialize(p, dev) == read_power_unit(p, dev)

\* A missing guard: start_measurement overwrites a measurement in progress.
rapl_start_measurement_Unguarded(p, t) ==
    [plugin |-> [p EXCEPT !.measurement_start = Some(t)], result |-> Ok(None)]

\* IntelRAPLPlugin::start_measurement
rapl_start_measurement(p, t) ==
    IF IsSome(p.measurement_start)
    THEN [plugin |-> p, result |-> Err("UnsupportedOperation")]
    ELSE [plugin |-> [p EXCEPT !.measurement_start = Some(t)], result |-> Ok(None)]

\* IntelRAPLPlugin::stop_measurement
rapl_stop_measurement(p) ==
    IF ~IsSome(p.measurement_start)
    THEN [plugin |-> p, result |-> Err("UnsupportedOperation")]
    ELSE [plugin |-> [p EXCEPT !.measurement_start = None], result |-> Ok(None)]

\* A bug get_measurement could have: it refuses to read unless
\* start_measurement was called.
rapl_get_measurement_RequiresStart(p, dev, dev2, t) ==
    IF ~IsSome(p.measurement_start) THEN Err("UnsupportedOperation")
    ELSE LET pkg_energy == read_msr(dev, MSR_PKG_ENERGY_STATUS)
             dram_energy == read_msr(dev2, MSR_DRAM_ENERGY_STATUS)
         IN IF ~pkg_energy.ok THEN pkg_energy
            ELSE IF ~dram_energy.ok THEN dram_energy
            ELSE Ok([timestamp           |-> t,
                     power_watts         |-> Ratio(pkg_energy.value * p.power_units.num,
                                                   p.power_units.den),
                     temperature_celsius |-> None,
                     additional_metrics  |->
                         [dram_energy_joules |->
                             Ratio(dram_energy.value * p.energy_units.num,
                                   p.energy_units.den)]])

\* IntelRAPLPlugin::get_measurement. The two read_msr calls open and read
\* the device one after the other: dev is the device as the first call
\* finds it and dev2 the device as the second call finds it.
rapl_get_measurement(p, dev, dev2, t) ==
    LET pkg_energy == read_msr(dev, MSR_PKG_ENERGY_STATUS)
        dram_energy == read_msr(dev2, MSR_DRAM_ENERGY_STATUS)
    IN IF ~pkg_energy.ok THEN pkg_energy
       ELSE IF ~dram_energy.ok THEN dram_energy
       ELSE Ok([timestamp           |-> t,
                power_watts         |-> Ratio(pkg_energy.value * p.power_units.num,
                                              p.power_units.den),
                temperature_celsius |-> None,
                additional_metrics  |->
                    [dram_energy_joules |->
                        Ratio(dram_energy.value * p.energy_units.num,
                              p.energy_units.den)]])

\* A call of IntelRAPLPlugin::initialize.
RaplInitialize ==
    LET out == rapl_initialize(rapl, msr)
    IN /\ rapl' = out.plugin
       /\ op' = [name |-> "IntelRAPLPlugin::initialize", before |-> rapl.measurement_start]
       /\ ret' = out.result
       /\ UNCHANGED <<now, multiVars, coreVars, pluginVars, instrVars, msr>>

\* A call of IntelRAPLPlugin::start_measurement.
RaplStartMeasurement ==
    LET out == rapl_start_measurement(rapl, now)
    IN /\ rapl' = out.plugin
       /\ op' = [name |-> "IntelRAPLPlugin::start_measurement", before |-> rapl.measurement_start]
       /\ ret' = out.result
       /\ UNCHANGED <<now, multiVars, coreVars, pluginVars, instrVars, msr>>

\* A call of IntelRAPLPlugin::stop_measurement.
RaplStopMeasurement ==
    LET out == rapl_stop_measurement(rapl)
    IN /\ rapl' = out.plugin
       /\ op' = [name |-> "IntelRAPLPlugin::stop_measurement", before |-> rapl.measurement_start]
       /\ ret' = out.result
       /\ UNCHANGED <<now, multiVars, coreVars, pluginVars, instrVars, msr>>

\* A call of IntelRAPLPlugin::get_measurement. The first read finds the
\* device as it is; the device may have changed (or not) when the second
\* read opens it, and is left as the second read found it. A call whose
\* first read fails returns at once.
RaplGetMeasurement ==
    \E dev2 \in MsrStates :
        LET second == [exists    |-> dev2.exists,
                       permitted |-> dev2.permitted,
                       complete  |-> dev2.complete,
                       word      |-> dev2.word,
                       regs      |-> msr.regs]
        IN /\ ~read_msr(msr, MSR_PKG_ENERGY_STATUS).ok => second = msr
           /\ ret' = rapl_get_measurement(rapl, msr, second, now)
           /\ msr' = second
           /\ op' = [name |-> "IntelRAPLPlugin::get_measurement",
                     before |-> rapl.measurement_start]
           /\ UNCHANGED <<now, multiVars, coreVars, pluginVars, instrVars, rapl>>

\* The device file changes under the plugin: the msr module is loaded or
\* unloaded, permissions change, the counters advance.
MsrChange ==
    \E dev \in MsrStates :
        /\ msr' = [exists    |-> dev.exists,
                   permitted |-> dev.permitted,
                   complete  |-> dev.complete,
                   word      |-> dev.word,
                   regs      |-> msr.regs]
        /\ msr' # msr
        /\ op' = [name |-> "environment"]
        /\ ret' = None
        /\ UNCHANGED <<now, multiVars, coreVars, pluginVars, instrVars, rapl>>

\* The plugin reads one of the registers it names (read_msr is called by
\* read_power_unit and by get_measurement).
ReadMsr ==
    \E reg \in Registers :
        /\ ret' = read_msr(msr, reg)
        /\ op' = [name |-> "read_msr", reg |-> reg]
        /\ UNCHANGED <<now, multiVars, coreVars, pluginVars, instrVars, rapl, msr>>

\* The hardware changes what a register holds: a counter advances, the
\* units are reprogrammed.
MsrRegisterChange ==
    \E reg \in Registers, w \in MsrWords :
        /\ w # msr.regs[reg]
        /\ msr' = [msr EXCEPT !.regs[reg] = w]
        /\ op' = [name |-> "environment"]
        /\ ret' = None
        /\ UNCHANGED <<now, multiVars, coreVars, pluginVars, instrVars, rapl>>

\* ------------------------------------------------ adapters
\* IntelRaplAdapter, ArmPmuAdapter, NvidiaGpuAdapter: each wraps a plugin.
Adapters == {"IntelRaplAdapter", "ArmPmuAdapter", "NvidiaGpuAdapter"}

\* EnergyAdapter::initialize of the three adapters: returns Ok(()); the
\* wrapped plugin p is not touched.
adapter_initialize(adapter, p) == [plugin |-> p, result |-> Ok(None)]

\* EnergyAdapter::shutdown of the three adapters: returns Ok(()); the
\* wrapped plugin p is not touched.
adapter_shutdown(adapter, p) == [plugin |-> p, result |-> Ok(None)]

\* A call of initialize() on an adapter that wraps the plugin.
AdapterInitialize ==
    \E adapter \in Adapters :
        LET out == adapter_initialize(adapter, rapl)
        IN /\ rapl' = out.plugin
           /\ op' = [name |-> "EnergyAdapter::initialize", adapter |-> adapter]
           /\ ret' = out.result
           /\ UNCHANGED <<now, multiVars, coreVars, pluginVars, instrVars, msr>>

\* A call of shutdown() on an adapter that wraps the plugin.
AdapterShutdown ==
    \E adapter \in Adapters :
        LET out == adapter_shutdown(adapter, rapl)
        IN /\ rapl' = out.plugin
           /\ op' = [name |-> "EnergyAdapter::shutdown", adapter |-> adapter]
           /\ ret' = out.result
           /\ UNCHANGED <<now, multiVars, coreVars, pluginVars, instrVars, msr>>

\* ------------------------------------------------ default HardwarePlugin
\* impl<T: DefaultPluginImpl> HardwarePlugin for T: start_measurement. It
\* keeps no state and returns Ok(Measurement { Utc::now(), 0.0 }).
default_start_measurement(plugin, t) == Ok([timestamp |-> t, joules |-> 0])

\* impl<T: DefaultPluginImpl> HardwarePlugin for T: stop_measurement.
default_stop_measurement(plugin, t) == Ok([timestamp |-> t, joules |-> 0])

\* A call of start_measurement() on a compiled-in plugin of the registry.
DefaultStartMeasurement ==
    \E i \in 1..Len(plugins) :
        /\ plugins[i].variant = "default"
        /\ ret' = default_start_measurement(plugins[i], now)
        /\ op' = [name |-> "HardwarePlugin::start_measurement",
                  plugin |-> i, before |-> started[i]]
        /\ started' = [started EXCEPT ![i] = started[i] \/ ret'.ok]
        /\ UNCHANGED <<now, multiVars, coreVars, raplVars, pair, instrVars>>

\* A call of stop_measurement() on a compiled-in plugin of the registry.
DefaultStopMeasurement ==
    \E i \in 1..Len(plugins) :
        /\ plugins[i].variant = "default"
        /\ ret' = default_stop_measurement(plugins[i], now)
        /\ op' = [name |-> "HardwarePlugin::stop_measurement",
                  plugin |-> i, before |-> started[i]]
        /\ started' = [started EXCEPT ![i] = started[i] /\ ~ret'.ok]
        /\ UNCHANGED <<now, multiVars, coreVars, raplVars, pair, instrVars>>

\* ------------------------------------------------ instrumentation EnergyMonitor
\* The positions of the monitor's plugins are their identities: plugins[i] = i.
\* A measurement kept or returned by the monitor carries, beside timestamp
\* and joules, the plugin it was read from (history, not in the code).

\* instrumentation EnergyMonitor::new
InstrEnergyMonitor_new == [plugins |-> <<>>, start_measurements |-> <<>>]

\* instrumentation EnergyMonitor::register_plugin
instr_register_plugin(mon) ==
    [mon EXCEPT !.plugins = Append(mon.plugins, Len(mon.plugins) + 1)]

\* What AsyncHardwarePlugin::start_measurement / stop_measurement of one
\* plugin can return at time t.
InstrOutcomes(t) ==
    {Err("HardwareError")} \cup {Ok(m) : m \in MeasurementsAt(t)}

\* The thread panicked: an index past the end of a Vec.
Panicked == [ok |-> FALSE, error |-> "panic: index out of bounds"]

\* A call of start_measurement or stop_measurement that is suspended at the
\* await of plugin i, with the end measurements it has collected so far.
InstrSuspended(name, i, end_measurements) ==
    Some([name |-> name, i |-> i, end_measurements |-> end_measurements])

\* instrumentation EnergyMonitor::start_measurement up to its first await:
\* self.start_measurements.clear().
instr_start_clear(mon) == [mon EXCEPT !.start_measurements = <<>>]

\* The body of the for loop of start_measurement for plugin i, whose
\* start_measurement returned outcome: an Ok measurement is pushed, a failed
\* plugin pushes nothing.
instr_start_push(mon, i, outcome) ==
    IF outcome.ok
    THEN [mon EXCEPT !.start_measurements =
             Append(mon.start_measurements,
                    [timestamp |-> outcome.value.timestamp,
                     joules    |-> outcome.value.joules,
                     plugin    |-> i])]
    ELSE mon

\* The body of the for loop of stop_measurement for plugin i, whose
\* stop_measurement returned outcome: for an Ok reading, take
\* self.start_measurements[i] (a panic when there is no such element; the
\* Vec index is the plugin's position, 0-based in the code and 1-based here)
\* and push end.joules - start.joules. A pushed measurement carries the
\* plugin of the end reading and the plugin of the start reading it was
\* paired with.
instr_stop_push(mon, i, outcome, end_measurements) ==
    IF ~outcome.ok THEN [panic |-> FALSE, end_measurements |-> end_measurements]
    ELSE IF i > Len(mon.start_measurements)
         THEN [panic |-> TRUE, end_measurements |-> end_measurements]
         ELSE [panic |-> FALSE,
               end_measurements |->
                   Append(end_measurements,
                          [timestamp    |-> outcome.value.timestamp,
                           joules       |-> outcome.value.joules
                                            - mon.start_measurements[i].joules,
                           plugin       |-> i,
                           start_plugin |-> mon.start_measurements[i].plugin])]

\* A call of instrumentation EnergyMonitor::register_plugin. It takes
\* &mut self, as start_measurement and stop_measurement do: it cannot be
\* called while one of their futures is alive.
InstrRegisterPlugin ==
    /\ ~IsSome(instr_call)
    /\ Len(instr.plugins) < MaxInstrPlugins
    /\ instr' = instr_register_plugin(instr)
    /\ op' = [name |-> "instrumentation::register_plugin"]
    /\ ret' = None
    /\ UNCHANGED <<now, multiVars, coreVars, raplVars, pluginVars, instr_call, inflight, mutex>>

\* A call of instrumentation EnergyMonitor::start_measurement is polled for
\* the first time: the Vec is cleared and the call is suspended at the await
\* of the first plugin; with no plugin it returns Ok(()) at once.
InstrStartMeasurement ==
    /\ ~IsSome(instr_call)
    /\ instr' = instr_start_clear(instr)
    /\ IF instr.plugins = <<>>
       THEN /\ instr_call' = None
            /\ op' = [name |-> "instrumentation::start_measurement"]
            /\ ret' = Ok(None)
       ELSE /\ instr_call' = InstrSuspended("start_measurement", 1, <<>>)
            /\ op' = [name |-> "instrumentation: call suspended"]
            /\ ret' = None
    /\ UNCHANGED <<now, multiVars, coreVars, raplVars, pluginVars, inflight, mutex>>

\* The plugin that a suspended start_measurement awaits answers, now: its
\* reading is pushed or left out, and the call is suspended at the next
\* plugin or, after the last one, returns Ok(()).
InstrStartResume ==
    /\ IsSome(instr_call)
    /\ instr_call[1].name = "start_measurement"
    /\ \E outcome \in InstrOutcomes(now) :
          LET i == instr_call[1].i
          IN /\ instr' = instr_start_push(instr, i, outcome)
             /\ IF i = Len(instr.plugins)
                THEN /\ instr_call' = None
                     /\ op' = [name |-> "instrumentation::start_measurement"]
                     /\ ret' = Ok(None)
                ELSE /\ instr_call' = InstrSuspended("start_measurement", i + 1, <<>>)
                     /\ op' = [name |-> "instrumentation: call suspended"]
                     /\ ret' = None
    /\ UNCHANGED <<now, multiVars, coreVars, raplVars, pluginVars, inflight, mutex>>

\* A call of instrumentation EnergyMonitor::stop_measurement is polled for
\* the first time: it is suspended at the await of the first plugin; with no
\* plugin it returns Ok of the empty Vec at once.
InstrStopMeasurement ==
    /\ ~IsSome(instr_call)
    /\ IF instr.plugins = <<>>
       THEN /\ instr_call' = None
            /\ op' = [name |-> "instrumentation::stop_measurement"]
            /\ ret' = Ok(<<>>)
       ELSE /\ instr_call' = InstrSuspended("stop_measurement", 1, <<>>)
            /\ op' = [name |-> "instrumentation: call suspended"]
            /\ ret' = None
    /\ UNCHANGED <<now, multiVars, coreVars, raplVars, pluginVars, instr, inflight, mutex>>

\* The plugin that a suspended stop_measurement awaits answers, now: the
\* call panics, or is suspended at the next plugin, or, after the last one,
\* returns Ok of the measurements it collected.
InstrStopResume ==
    /\ IsSome(instr_call)
    /\ instr_call[1].name = "stop_measurement"
    /\ \E outcome \in InstrOutcomes(now) :
          LET i == instr_call[1].i
              out == instr_stop_push(instr, i, outcome, instr_call[1].end_measurements)
          IN IF out.panic
             THEN /\ instr_call' = None
                  /\ op' = [name |-> "instrumentation::stop_measurement"]
                  /\ ret' = Panicked
             ELSE IF i = Len(instr.plugins)
                  THEN /\ instr_call' = None
                       /\ op' = [name |-> "instrumentation::stop_measurement"]
                       /\ ret' = Ok(out.end_measurements)
                  ELSE /\ instr_call' = InstrSuspended("stop_measurement", i + 1,
                                                       out.end_measurements)
                       /\ op' = [name |-> "instrumentation: call suspended"]
                       /\ ret' = None
    /\ UNCHANGED <<now, multiVars, coreVars, raplVars, pluginVars, instr, inflight, mutex>>

\* The caller drops the future of a suspended call (a timeout around it
\* elapses, a select! takes another branch): the call returns nothing, and
\* the monitor stays as the call had left it at its await.
InstrDropCall ==
    /\ IsSome(instr_call)
    /\ instr_call' = None
    /\ op' = [name |-> "instrumentation: call dropped", call |-> instr_call[1].name]
    /\ ret' = None
    /\ UNCHANGED <<now, multiVars, coreVars, raplVars, pluginVars, instr, inflight, mutex>>

\* ------------------------------------------------ AsyncHardwarePlugin
\* The tasks that call the wrapper, and the methods they call.
Callers == 1..MaxCallers
Methods == {"start_measurement", "stop_measurement", "get_measurement", "get_name"}

\* AsyncHardwarePlugin::new: Arc<Mutex<plugin>>, unlocked. The tokio Mutex
\* is its locked flag and its queue of waiting tasks (it grants the lock in
\* the order the tasks asked); call[c] is the method task c is in ("none"
\* outside a call) and in_plugin the tasks running the wrapped plugin's code.
AsyncHardwarePlugin_new ==
    [locked    |-> FALSE,
     waiters   |-> <<>>,
     in_plugin |-> {},
     call      |-> [c \in Callers |-> "none"]]

\* Task c enters a method of the wrapper and reaches self.plugin.lock().await.
AsyncCall(c, method) ==
    /\ mutex.call[c] = "none"
    /\ mutex' = [mutex EXCEPT !.call[c] = method,
                              !.waiters = Append(mutex.waiters, c)]
    /\ UNCHANGED <<now, multiVars, coreVars, raplVars, pluginVars, instr, instr_call, inflight,
                 callVars>>

\* A missing exclusion: the task at the head of the queue gets the guard
\* although the lock is held.
AsyncAcquire_IgnoresLock(c) ==
    /\ mutex.waiters # <<>>
    /\ Head(mutex.waiters) = c
    /\ mutex' = [mutex EXCEPT !.locked = TRUE,
                              !.waiters = Tail(mutex.waiters),
                              !.in_plugin = mutex.in_plugin \cup {c}]
    /\ UNCHANGED <<now, multiVars, coreVars, raplVars, pluginVars, instr, instr_call, inflight,
                 callVars>>

\* lock().await completes for task c: the lock is free and c is first in the
\* queue; c holds the guard and calls the wrapped plugin.
AsyncAcquire(c) ==
    /\ ~mutex.locked
    /\ mutex.waiters # <<>>
    /\ Head(mutex.waiters) = c
    /\ mutex' = [mutex EXCEPT !.locked = TRUE,
                              !.waiters = Tail(mutex.waiters),
                              !.in_plugin = mutex.in_plugin \cup {c}]
    /\ UNCHANGED <<now, multiVars, coreVars, raplVars, pluginVars, instr, instr_call, inflight,
                 callVars>>

\* The wrapped plugin's call returns to task c; the method returns and the
\* guard is dropped, which unlocks the Mutex.
AsyncReturn(c) ==
    /\ c \in mutex.in_plugin
    /\ mutex' = [mutex EXCEPT !.locked = FALSE,
                              !.in_plugin = mutex.in_plugin \ {c},
                              !.call[c] = "none"]
    /\ UNCHANGED <<now, multiVars, coreVars, raplVars, pluginVars, instr, instr_call, inflight,
                 callVars>>

\* ------------------------------------------------ BaseAdapter helpers
CounterModulus == 2 ^ CounterBits

\* Raw readings of the wrapping counter, with energy unit 1: joules = raw.
RawReadings == (0..MaxRaw) \cup {CounterModulus - 1 - k : k \in 0..MaxRaw}

\* Measurements of one source as a plugin read produces them.
CounterMeasurements == [timestamp : Times, joules : RawReadings]

\* BaseAdapter::calculate_duration: chrono's signed difference.
calculate_duration(start, end) == end.timestamp - start.timestamp

\* BaseAdapter::calculate_energy_delta
calculate_energy_delta(start, end) == end.joules - start.joules

\* BaseAdapter::create_session. duration.to_std() fails on a negative
\* duration and unwrap_or_default() then gives zero.
create_session(start, end) ==
    LET d == calculate_duration(start, end)
        energy == calculate_energy_delta(start, end)
    IN [start_measurements |-> Insert(EmptyMap, "base", start),
        end_measurements   |-> Insert(EmptyMap, "base", end),
        start              |-> start.timestamp,
        end                |-> end.timestamp,
        duration           |-> IF d >= 0 THEN d ELSE 0,
        total_energy       |-> energy]

\* A call of BaseAdapter::calculate_duration on the two measurements.
CalculateDuration ==
    /\ ret' = calculate_duration(pair.start, pair.end)
    /\ op' = [name |-> "calculate_duration"]
    /\ UNCHANGED <<now, multiVars, coreVars, raplVars, pluginVars, instrVars>>

\* A call of BaseAdapter::calculate_energy_delta on the two measurements.
CalculateEnergyDelta ==
    /\ ret' = calculate_energy_delta(pair.start, pair.end)
    /\ op' = [name |-> "calculate_energy_delta"]
    /\ UNCHANGED <<now, multiVars, coreVars, raplVars, pluginVars, instrVars>>

\* A call of BaseAdapter::create_session on the two measurements.
CreateSession ==
    /\ ret' = create_session(pair.start, pair.end)
    /\ op' = [name |-> "create_session"]
    /\ UNCHANGED <<now, multiVars, coreVars, raplVars, pluginVars, instrVars>>

\* The two measurements are added to a new MeasurementSession as the start
\* and the end measurement of one source.
SessionOfPair ==
    /\ ret' = add_end_measurement(
                  add_start_measurement(MeasurementSession_new(pair.start.timestamp),
                                        "base", pair.start),
                  "base", pair.end)
    /\ op' = [name |-> "MeasurementSession"]
    /\ UNCHANGED <<now, multiVars, coreVars, raplVars, pluginVars, instrVars>>

\* The two measurements are added to a new MultiSourceSession as the start
\* and the end measurement of one source, and get_source_sessions is called.
SourceSessionsOfPair ==
    /\ ret' = get_source_sessions(
                  MultiSourceSession_add_end_measurement(
                      MultiSourceSession_add_start_measurement(
                          MultiSourceSession_new(pair.start.timestamp),
                          [source    |-> "source1",
                           joules    |-> pair.start.joules,
                           timestamp |-> pair.start.timestamp]),
                      [source    |-> "source1",
                       joules    |-> pair.end.joules,
                       timestamp |-> pair.end.timestamp]))
    /\ op' = [name |-> "get_source_sessions"]
    /\ UNCHANGED <<now, multiVars, coreVars, raplVars, pluginVars, instrVars>>

\* The clock advances between calls.
Tick ==
    /\ now < MaxTime
    /\ now' = now + 1
    /\ UNCHANGED <<multiVars, coreVars, raplVars, pluginVars, instrVars, callVars>>

Init ==
    /\ now = 0
    /\ multi = MultiSourceSession_new(0)
    /\ session = MeasurementSession_new(0)
    /\ plugins = PluginRegistry_new
    /\ device_present = [n \in DefaultNames |-> FALSE]
    /\ available_result = None
    /\ rapl = IntelRAPLPlugin_new
    /\ msr = [exists |-> FALSE, permitted |-> FALSE, complete |-> FALSE, word |-> 0,
              regs |-> [reg \in Registers |-> 0]]
    /\ started = [i \in 1..Len(PluginRegistry_new) |-> FALSE]
    /\ pair = [start |-> [timestamp |-> 0, joules |-> 0],
               end   |-> [timestamp |-> 0, joules |-> 0]]
    /\ instr = InstrEnergyMonitor_new
    /\ instr_call = None
    /\ inflight = None
    /\ mutex = AsyncHardwarePlugin_new
    /\ op = NoCall
    /\ ret = None

NextMulti ==
    \/ MsAddStartMeasurement
    \/ MsAddEndMeasurement
    \/ MsEnd
    \/ Tick

SpecMulti == Init /\ [][NextMulti]_vars

NextSession ==
    \/ NewSession
    \/ AddStartMeasurement
    \/ AddEndMeasurement
    \/ Tick

SpecSession == Init /\ [][NextSession]_vars

NextRegistry ==
    \/ NewRegistry
    \/ RegisterPlugin
    \/ SetAvailability
    \/ HotPlug
    \/ GetAvailablePlugins

SpecRegistry == Init /\ [][NextRegistry]_vars

NextMonitor ==
    \/ RegisterPlugin
    \/ SetAvailability
    \/ MonitorStart
    \/ MonitorStop
    \/ Tick

SpecMonitor == Init /\ [][NextMonitor]_vars

NextEndToEnd ==
    \/ RegisterSource
    \/ MonitorStart
    \/ MonitorStop
    \/ Tick

SpecEndToEnd == Init /\ [][NextEndToEnd]_vars

NextRapl ==
    \/ RaplInitialize
    \/ RaplStartMeasurement
    \/ RaplStopMeasurement
    \/ RaplGetMeasurement
    \/ ReadMsr
    \/ MsrChange
    \/ Tick

SpecRapl == Init /\ [][NextRapl]_vars

NextAdapter ==
    \/ AdapterInitialize
    \/ AdapterShutdown
    \/ RaplInitialize
    \/ MsrChange

SpecAdapter == Init /\ [][NextAdapter]_vars

NextTimeout ==
    \/ RegisterPlugin
    \/ MonitorStart
    \/ MonitorStop
    \/ MonitorReadBlocks
    \/ Tick

\* Every call that can take a step does: the scheduler runs the caller.
SpecTimeout == Init /\ [][NextTimeout]_vars /\ WF_vars(NextTimeout)

NextAsync ==
    \/ \E c \in Callers, method \in Methods : AsyncCall(c, method)
    \/ \E c \in Callers : AsyncAcquire(c)
    \/ \E c \in Callers : AsyncReturn(c)

\* The tokio Mutex hands the free lock to the first waiting task, and each
\* call of the wrapped plugin returns.
SpecAsync ==
    /\ Init
    /\ [][NextAsync]_vars
    /\ \A c \in Callers : WF_vars(AsyncAcquire(c)) /\ WF_vars(AsyncReturn(c))

NextInstr ==
    \/ InstrRegisterPlugin
    \/ InstrStartMeasurement
    \/ InstrStartResume
    \/ InstrStopMeasurement
    \/ InstrStopResume
    \/ InstrDropCall
    \/ Tick

SpecInstr == Init /\ [][NextInstr]_vars

NextMsr ==
    \/ ReadMsr
    \/ MsrChange
    \/ MsrRegisterChange

SpecMsr == Init /\ [][NextMsr]_vars

NextDefault ==
    \/ DefaultStartMeasurement
    \/ DefaultStopMeasurement
    \/ Tick

SpecDefault == Init /\ [][NextDefault]_vars

\* The helpers are pure: the two measurements are drawn when the run starts.
InitDelta ==
    /\ now = 0
    /\ multi = MultiSourceSession_new(0)
    /\ session = MeasurementSession_new(0)
    /\ plugins = PluginRegistry_new
    /\ device_present = [n \in DefaultNames |-> FALSE]
    /\ available_result = None
    /\ rapl = IntelRAPLPlugin_new
    /\ msr = [exists |-> FALSE, permitted |-> FALSE, complete |-> FALSE, word |-> 0,
              regs |-> [reg \in Registers |-> 0]]
    /\ started = [i \in 1..Len(PluginRegistry_new) |-> FALSE]
    /\ pair \in [start : CounterMeasurements, end : CounterMeasurements]
    /\ instr = InstrEnergyMonitor_new
    /\ instr_call = None
    /\ inflight = None
    /\ mutex = AsyncHardwarePlugin_new
    /\ op = NoCall
    /\ ret = None

NextDelta ==
    \/ CalculateDuration
    \/ CalculateEnergyDelta
    \/ CreateSession
    \/ SessionOfPair
    \/ SourceSessionsOfPair

SpecDelta == InitDelta /\ [][NextDelta]_vars

Next ==
    \/ NextMulti
    \/ NextSession
    \/ NextRegistry
    \/ NextMonitor
    \/ NextRapl
    \/ NextMsr
    \/ NextInstr
    \/ NextTimeout
    \/ NextAsync
    \/ NextAdapter
    \/ NextDefault
    \/ NextDelta

Spec == Init /\ [][Next]_vars

\* ------------------------------------------------------------ claims
\* The sum, over every source, of end.joules - start.joules when the source has
\* an entry in both maps and of zero otherwise.
PairedDeltaSum(start, end) ==
    FoldSum(Sources,
            [k \in Sources |->
                IF k \in DOMAIN start /\ k \in DOMAIN end
                THEN end[k].joules - start[k].joules
                ELSE 0])

\* The sources with an entry in exactly one of the two maps.
OnlyInOneMap(start, end) ==
    ((DOMAIN start) \ (DOMAIN end)) \cup ((DOMAIN end) \ (DOMAIN start))

\* C1: in every state a MultiSourceSession reaches by add_start_measurement,
\* add_end_measurement and end calls, total_energy() is the sum of
\* end.joules - start.joules over exactly the sources present in both maps;
\* a source present in only one map contributes zero.
C1_TotalEnergyIsPairedDeltaSum ==
    total_energy(multi) =
        PairedDeltaSum(multi.start_measurements, multi.end_measurements)

\* C1's case: the session was ended, source1 is paired with a non-zero delta
\* and source2 has a non-zero start reading and no end reading.
C1_Witness ==
    /\ IsSome(multi.end_time)
    /\ DOMAIN multi.start_measurements = {"source1", "source2"}
    /\ DOMAIN multi.end_measurements = {"source1"}
    /\ multi.start_measurements["source2"].joules > 0
    /\ total_energy(multi) > 0

\* C2: after any sequence of add_start_measurement and add_end_measurement
\* calls on the core MeasurementSession, in any order, get_total_energy() is
\* the sum of end.joules - start.joules over the sources present in both maps.
C2_TotalEnergyMatchesMaps ==
    get_total_energy(session) =
        PairedDeltaSum(session.start_measurements, session.end_measurements)

\* C4: the session reports the sources that have an entry in only one of the
\* two maps: each of them is named by an output of the session. The only
\* output of MultiSourceSession that names sources is get_source_sessions().
C4_MissingSourcesReported ==
    OnlyInOneMap(multi.start_measurements, multi.end_measurements)
        \subseteq {x.start.source : x \in get_source_sessions(multi)}

\* The last call was EnergyMonitor::start_measurement or stop_measurement.
MonitorCalled ==
    op.name \in {"EnergyMonitor::start_measurement", "EnergyMonitor::stop_measurement"}

\* C3: a failing plugin read does not make EnergyMonitor.start_measurement or
\* stop_measurement fail as a whole: the call still returns a session.
C3_PluginFailureNotFatal ==
    MonitorCalled => ret.ok

\* C5: a plugin whose is_available() is false is never read by
\* EnergyMonitor.start_measurement or stop_measurement.
C5_UnavailableNeverRead ==
    MonitorCalled =>
        \A k \in 1..Len(op.read) : is_available(plugins[op.read[k]])

\* C6: what a get_available_plugins() call returns is exactly the registered
\* plugins whose is_available() is true at that call, each once, in
\* registration order, whatever an earlier call returned.
C6_AvailableIsRecomputed ==
    op.name = "get_available_plugins" =>
        LET r == Unwrap(available_result)
        IN /\ \A i \in 1..Len(plugins) :
                  is_available(plugins[i]) <=> (\E k \in 1..Len(r) : r[k] = i)
           /\ \A k \in 1..Len(r) : r[k] \in 1..Len(plugins)
           /\ \A k1, k2 \in 1..Len(r) : k1 < k2 => r[k1] < r[k2]

\* C6's case: get_available_plugins() has just returned, with a registered
\* plugin that is not available left out of the result.
C6_Witness ==
    /\ op.name = "get_available_plugins"
    /\ \E i \in 1..Len(plugins) : ~is_available(plugins[i])
    /\ Len(Unwrap(available_result)) = Len(plugins) - 1

\* C7: a compiled-in variant whose hardware backend is not present answers
\* is_available() = false and is not in get_available_plugins().
C7_AbsentBackendUnavailable ==
    \A i \in 1..Len(plugins) :
        (plugins[i].variant = "default" /\ ~device_present[plugins[i].name]) =>
            /\ ~is_available(plugins[i])
            /\ \A k \in 1..Len(get_available_plugins(plugins)) :
                   get_available_plugins(plugins)[k] # i

\* C8: IntelRAPLPlugin is a two-state guard. start_measurement succeeds
\* exactly when no measurement is in progress, and then one is; stop_measurement
\* succeeds exactly when one is in progress, and then none is; a call that
\* fails does so with UnsupportedOperation and leaves measurement_start as
\* it was before the call.
C8_RaplTwoStateGuard ==
    /\ op.name = "IntelRAPLPlugin::start_measurement" =>
           /\ ret.ok <=> ~IsSome(op.before)
           /\ ret.ok => IsSome(rapl.measurement_start)
           /\ ~ret.ok => /\ ret.error = "UnsupportedOperation"
                         /\ rapl.measurement_start = op.before
    /\ op.name = "IntelRAPLPlugin::stop_measurement" =>
           /\ ret.ok <=> IsSome(op.before)
           /\ ret.ok => ~IsSome(rapl.measurement_start)
           /\ ~ret.ok => /\ ret.error = "UnsupportedOperation"
                         /\ rapl.measurement_start = op.before

\* C8's case: start_measurement was called while a measurement, started at
\* an earlier time, was in progress, and failed.
C8_Witness ==
    /\ op.name = "IntelRAPLPlugin::start_measurement"
    /\ IsSome(op.before)
    /\ Unwrap(op.before) < now
    /\ ~ret.ok

\* C9: for the plugins that use the default HardwarePlugin implementation,
\* start_measurement while a measurement is already started fails, and
\* stop_measurement without a prior start_measurement fails.
C9_DefaultStartStopGuarded ==
    /\ (op.name = "HardwarePlugin::start_measurement" /\ op.before) => ~ret.ok
    /\ (op.name = "HardwarePlugin::stop_measurement" /\ ~op.before) => ~ret.ok

\* The overflow-corrected delta of two readings of the wrapping counter.
CorrectedDelta(earlier, later) ==
    IF later >= earlier THEN later - earlier ELSE later + CounterModulus - earlier

\* C10: calculate_energy_delta and the session totals give the
\* overflow-corrected delta: later - earlier when later >= earlier and
\* later + modulus - earlier when later < earlier (readings modulus - 6 then
\* 5 give 11).
C10_DeltaOverflowCorrected ==
    /\ op.name = "calculate_energy_delta" =>
           ret = CorrectedDelta(pair.start.joules, pair.end.joules)
    /\ op.name \in {"create_session", "MeasurementSession"} =>
           ret.total_energy = CorrectedDelta(pair.start.joules, pair.end.joules)

\* C13: end() is idempotent. A call of end() on a MultiSourceSession that was
\* already ended leaves the session, and so the recorded end time, duration()
\* and average_power(), as the first end() call set them.
C13_EndIsIdempotent ==
    [][(IsSome(multi.end_time) /\ MsEnd) =>
           /\ multi'.end_time = multi.end_time
           /\ duration(multi') = duration(multi)
           /\ average_power(multi') = average_power(multi)]_vars

\* C14: once end() was called the MultiSourceSession is read-only. A later
\* add_start_measurement or add_end_measurement call changes neither the
\* start map, nor the end map, nor total_energy(), nor duration().
C14_ReadOnlyAfterEnd ==
    [][(IsSome(multi.end_time) /\ (MsAddStartMeasurement \/ MsAddEndMeasurement)) =>
           /\ multi'.start_measurements = multi.start_measurements
           /\ multi'.end_measurements = multi.end_measurements
           /\ total_energy(multi') = total_energy(multi)
           /\ duration(multi') = duration(multi)]_vars

\* C15: duration() and average_power() of a MultiSourceSession have no value
\* when the session is constructed, keep having none across every step that
\* is not an end() call, have a value after an end() call, and once they have
\* a value they have one after every later step.
C15_DefinedExactlyFromFirstEnd ==
    /\ ~IsSome(duration(multi)) /\ ~IsSome(average_power(multi))
    /\ [][/\ (~IsSome(duration(multi)) /\ ~MsEnd) =>
                  (~IsSome(duration(multi')) /\ ~IsSome(average_power(multi')))
           /\ (MsEnd => (IsSome(duration(multi')) /\ IsSome(average_power(multi'))))
           /\ (IsSome(duration(multi)) => IsSome(duration(multi')))
           /\ (IsSome(average_power(multi)) => IsSome(average_power(multi')))]_vars

\* C15's case: the session was ended and a start and an end measurement were
\* added at a later time; duration() and average_power() have a value.
C15_Witness ==
    /\ IsSome(multi.end_time)
    /\ \E k \in DOMAIN multi.start_measurements :
           multi.start_measurements[k].timestamp > Unwrap(multi.end_time)
    /\ \E k \in DOMAIN multi.end_measurements :
           multi.end_measurements[k].timestamp > Unwrap(multi.end_time)
    /\ IsSome(duration(multi))
    /\ IsSome(average_power(multi))

\* C16: after end(), average_power() has a value that is a number (its
\* denominator is not zero); the value is 0 when the duration is 0 and
\* total_energy() divided by the duration when the duration is positive.
C16_AveragePowerZeroOrQuotient ==
    IsSome(multi.end_time) =>
        /\ IsSome(duration(multi))
        /\ IsSome(average_power(multi))
        /\ Unwrap(average_power(multi)).den # 0
        /\ (Unwrap(duration(multi)) = 0 => Unwrap(average_power(multi)).num = 0)
        /\ (Unwrap(duration(multi)) > 0 =>
               Unwrap(average_power(multi)).num * Unwrap(duration(multi)) =
                   total_energy(multi) * Unwrap(average_power(multi)).den)

\* C16's case: the session was ended at the instant it was constructed, with
\* a paired source whose readings differ: the duration is 0 and
\* total_energy() is not.
C16_Witness ==
    /\ IsSome(multi.end_time)
    /\ Unwrap(duration(multi)) = 0
    /\ total_energy(multi) # 0
    /\ Unwrap(average_power(multi)).num = 0

\* C11: a MeasurementSession made from a start and an end measurement of one
\* source whose timestamps are in order (by create_session, by adding the two
\* to a MeasurementSession, or by get_source_sessions) has a duration that is
\* not negative and a total_energy that is not negative.
C11_DurationAndEnergyNotNegative ==
    pair.start.timestamp <= pair.end.timestamp =>
        /\ op.name \in {"create_session", "MeasurementSession"} =>
               (ret.duration >= 0 /\ ret.total_energy >= 0)
        /\ op.name = "get_source_sessions" =>
               \A x \in ret : x.duration >= 0 /\ x.total_energy >= 0

\* The names of the registered plugins.
PluginNames == {plugins[i].name : i \in 1..Len(plugins)}

\* A session of start_measurement was passed to a stop_measurement that
\* succeeded, with every registered plugin available and distinctly named.
EndToEndCase ==
    /\ op.name = "EnergyMonitor::stop_measurement"
    /\ IsSome(op.after)
    /\ ret.ok
    /\ \A i \in 1..Len(plugins) : is_available(plugins[i])
    /\ Cardinality(PluginNames) = Len(plugins)

\* C12, with the duration the readings give: in that case the session
\* returned has an entry for each plugin in both maps and a total_energy
\* that is the sum over the plugins of the end entry's reading minus the
\* start entry's reading; its end is the timestamp of the end reading of the
\* plugin read last, and its duration is that timestamp minus the time of
\* the start_measurement call, or 0 when that is negative. The duration is
\* at least the time between the two calls whenever that reading is stamped
\* no earlier than the stop_measurement call.
C12_EndToEndDurationFromLastReading ==
    EndToEndCase =>
        LET last == plugins[Len(plugins)].name
            stamp == ret.value.end_measurements[last].timestamp
            since == stamp - Unwrap(op.after)
        IN /\ DOMAIN ret.value.start_measurements = PluginNames
           /\ DOMAIN ret.value.end_measurements = PluginNames
           /\ ret.value.total_energy =
                  FoldSum(PluginNames,
                          [n \in PluginNames |->
                              ret.value.end_measurements[n].joules
                              - ret.value.start_measurements[n].joules])
           /\ ret.value.end = stamp
           /\ ret.value.duration = (IF since < 0 THEN 0 ELSE since)
           /\ (stamp >= op.at) => (ret.value.duration >= op.at - Unwrap(op.after))

\* The case of C12 (as amended): the two sources A and B are registered
\* beside the compiled-in plugins, both read more at stop than at start, and
\* the plugin read last stamped its end reading with a time before the
\* stop_measurement call, so that the duration is less than the time
\* between the two calls.
C12_LateStampWitness ==
    /\ EndToEndCase
    /\ Cardinality(ExternalIdx(plugins)) = 2
    /\ \A i \in ExternalIdx(plugins) :
           ret.value.end_measurements[plugins[i].name].joules
               > ret.value.start_measurements[plugins[i].name].joules
    /\ ret.value.total_energy = 2 * MaxJoules
    /\ ret.value.duration < op.at - Unwrap(op.after)

\* C12: end to end. When every registered plugin is available, the names
\* are distinct and every read succeeds, the session that stop_measurement
\* returns for the session of the start_measurement call before it has an
\* entry for each plugin in both maps, a total_energy that is the sum over the
\* plugins of the end entry's reading minus the start entry's reading, and a
\* duration of at least the time between the two calls.
C12_StartThenStopEndToEnd ==
    (/\ op.name = "EnergyMonitor::stop_measurement"
     /\ IsSome(op.after)
     /\ ret.ok
     /\ \A i \in 1..Len(plugins) : is_available(plugins[i])
     /\ Cardinality(PluginNames) = Len(plugins)) =>
        /\ DOMAIN ret.value.start_measurements = PluginNames
        /\ DOMAIN ret.value.end_measurements = PluginNames
        /\ ret.value.total_energy =
               FoldSum(PluginNames,
                       [n \in PluginNames |->
                           ret.value.end_measurements[n].joules
                           - ret.value.start_measurements[n].joules])
        /\ ret.value.duration >= op.at - Unwrap(op.after)

\* The MultiSourceSession that was given the same add calls as the
\* MeasurementSession s, and was constructed when s was.
SameCallsOnMulti(s) ==
    [start_measurements |->
         [k \in DOMAIN s.start_measurements |->
             [source    |-> k,
              joules    |-> s.start_measurements[k].joules,
              timestamp |-> s.start_measurements[k].timestamp]],
     end_measurements |->
         [k \in DOMAIN s.end_measurements |->
             [source    |-> k,
              joules    |-> s.end_measurements[k].joules,
              timestamp |-> s.end_measurements[k].timestamp]],
     start_time |-> s.start,
     end_time   |-> None]

\* The map after holds, for every source but one, what the map before held.
OthersKept(before, after, source) ==
    \A k \in Sources \ {source} :
        /\ k \in DOMAIN after <=> k \in DOMAIN before
        /\ k \in DOMAIN before => after[k] = before[k]

\* C17: add_start_measurement and add_end_measurement, of MeasurementSession
\* and of MultiSourceSession, are idempotent-overwrite per source key. For
\* every session reached and every call: applying the call twice in a row
\* gives the state that applying it once gives; after the call the map holds
\* the measurement under the call's source; the entries of the other sources
\* are as before, and so is the other map.
C17_AddIsIdempotentOverwrite ==
    \A source \in Sources, m \in MeasurementsAt(now) :
        LET s1  == add_start_measurement(session, source, m)
            e1  == add_end_measurement(session, source, m)
            ms  == SameCallsOnMulti(session)
            em  == [source |-> source, joules |-> m.joules, timestamp |-> m.timestamp]
            ms1 == MultiSourceSession_add_start_measurement(ms, em)
            me1 == MultiSourceSession_add_end_measurement(ms, em)
        IN /\ add_start_measurement(s1, source, m) = s1
           /\ s1.start_measurements[source] = m
           /\ OthersKept(session.start_measurements, s1.start_measurements, source)
           /\ s1.end_measurements = session.end_measurements
           /\ add_end_measurement(e1, source, m) = e1
           /\ e1.end_measurements[source] = m
           /\ OthersKept(session.end_measurements, e1.end_measurements, source)
           /\ e1.start_measurements = session.start_measurements
           /\ MultiSourceSession_add_start_measurement(ms1, em) = ms1
           /\ ms1.start_measurements[source] = em
           /\ OthersKept(ms.start_measurements, ms1.start_measurements, source)
           /\ ms1.end_measurements = ms.end_measurements
           /\ MultiSourceSession_add_end_measurement(me1, em) = me1
           /\ me1.end_measurements[source] = em
           /\ OthersKept(ms.end_measurements, me1.end_measurements, source)
           /\ me1.start_measurements = ms.start_measurements

\* C17's case: add_end_measurement has just been called and every source
\* has an entry in both maps, so that each further call replaces an entry;
\* the entries of the two sources differ and the total is not zero.
C17_Witness ==
    /\ op.name = "add_end_measurement"
    /\ DOMAIN session.start_measurements = Sources
    /\ DOMAIN session.end_measurements = Sources
    /\ session.end_measurements["source1"] # session.end_measurements["source2"]
    /\ session.total_energy # 0

\* Bit i of the word v, and the number that bits lo..hi of v spell.
BitOf(v, i) == (v \div (2 ^ i)) % 2

RECURSIVE BitField(_, _, _)
BitField(v, lo, hi) ==
    IF hi < lo THEN 0
    ELSE BitOf(v, lo) + 2 * BitField(v, lo + 1, hi)

\* C18: for every word v that the read of the power-unit register returns,
\* initialize() sets the power unit to 1/2^(bits 0..3 of v), the energy unit
\* to 1/2^(bits 8..12 of v) and the time unit to 1/2^(bits 16..19 of v); a
\* word that differs from v only in bits outside the three fields gives the
\* same units.
C18_UnitsDecodedFromFields ==
    (op.name = "IntelRAPLPlugin::initialize" /\ ret.ok) =>
        LET v == read_msr(msr, MSR_POWER_UNIT).value
        IN /\ rapl.power_units  = Ratio(1, 2 ^ BitField(v, 0, 3))
           /\ rapl.energy_units = Ratio(1, 2 ^ BitField(v, 8, 12))
           /\ rapl.time_units   = Ratio(1, 2 ^ BitField(v, 16, 19))
           /\ \A w \in MsrWords :
                  (/\ BitField(w, 0, 3) = BitField(v, 0, 3)
                   /\ BitField(w, 8, 12) = BitField(v, 8, 12)
                   /\ BitField(w, 16, 19) = BitField(v, 16, 19)) =>
                      LET q == rapl_initialize(rapl, [msr EXCEPT !.word = w]).plugin
                      IN /\ q.power_units = rapl.power_units
                         /\ q.energy_units = rapl.energy_units
                         /\ q.time_units = rapl.time_units

\* C18's case: initialize() succeeded on a word whose energy exponent uses
\* bit 12 and that has bits set outside the three fields.
C18_Witness ==
    /\ op.name = "IntelRAPLPlugin::initialize"
    /\ ret.ok
    /\ BitField(msr.word, 8, 12) > 16
    /\ BitField(msr.word, 4, 7) # 0
    /\ BitField(msr.word, 13, 15) # 0
    /\ BitField(msr.word, 20, 23) # 0
    /\ rapl.energy_units = Ratio(1, 131072)

\* A fraction whose denominator is a power of two, in lowest terms: two such
\* fractions are the same number exactly when their lowest terms are equal.
RECURSIVE LowestTerms(_)
LowestTerms(r) ==
    IF r.num = 0 THEN Ratio(0, 1)
    ELSE IF r.num % 2 = 0 /\ r.den % 2 = 0
         THEN LowestTerms(Ratio(r.num \div 2, r.den \div 2))
         ELSE r

\* C19: the energy reading of the Measurement that get_measurement returns
\* is the raw value read from the package-energy register times the energy
\* unit, and the DRAM metric is the raw value read from the DRAM-energy
\* register times the energy unit. (The package value is read from the
\* device as the call finds it, the DRAM value from the device as the call
\* leaves it.)
C19_EnergyIsRawTimesEnergyUnit ==
    [][(op'.name = "IntelRAPLPlugin::get_measurement" /\ ret'.ok) =>
        LET pkg  == read_msr(msr, MSR_PKG_ENERGY_STATUS).value
            dram == read_msr(msr', MSR_DRAM_ENERGY_STATUS).value
        IN /\ LowestTerms(ret'.value.power_watts) =
                  LowestTerms(Ratio(pkg * rapl.energy_units.num, rapl.energy_units.den))
           /\ LowestTerms(ret'.value.additional_metrics.dram_energy_joules) =
                  LowestTerms(Ratio(dram * rapl.energy_units.num, rapl.energy_units.den))]_vars

\* C20: register reads are addressed per register. A read of the power-unit,
\* the package-energy or the DRAM-energy register that succeeds returns the
\* value that register holds.
C20_ReadsAreAddressedPerRegister ==
    (op.name = "read_msr" /\ ret.ok) => ret.value = msr.regs[op.reg]

\* The error kind a read of the device gives: none when the path exists,
\* open() succeeds and 8 bytes can be read.
ReadFailsWith(dev, kind) ==
    /\ kind = "DeviceNotFound" <=> ~dev.exists
    /\ kind = "PermissionDenied" <=> (dev.exists /\ ~dev.permitted)
    /\ kind = "SensorError" <=> (dev.exists /\ dev.permitted /\ ~dev.complete)
    /\ kind = "none" <=> (dev.exists /\ dev.permitted /\ dev.complete)

\* The device can be read: a read of it returns a value.
Readable(dev) == dev.exists /\ dev.permitted /\ dev.complete

\* (In C21 and C25 a step is told by the call it records: the steps of the
\* device and of the clock leave the plugin and the last result alone.)
\* C21: a register read fails with DeviceNotFound exactly when the path does
\* not exist, with PermissionDenied exactly when it exists and cannot be
\* opened, with SensorError exactly when it opens and 8 bytes cannot be read,
\* and returns a value otherwise; initialize() and get_measurement() fail
\* with the same error kind as the read of theirs that fails (for
\* get_measurement the first read, or the second when the first succeeded),
\* succeed when their reads do, and leave the plugin as it was when they
\* fail.
C21_ReadErrorKinds ==
    [][/\ op'.name \in {"read_msr", "IntelRAPLPlugin::initialize"} =>
              ReadFailsWith(msr, IF ret'.ok THEN "none" ELSE ret'.error)
       /\ op'.name = "IntelRAPLPlugin::get_measurement" =>
              ReadFailsWith(IF Readable(msr) THEN msr' ELSE msr,
                            IF ret'.ok THEN "none" ELSE ret'.error)
       /\ (/\ op'.name \in {"IntelRAPLPlugin::initialize",
                           "IntelRAPLPlugin::get_measurement"}
           /\ ~ret'.ok) => rapl' = rapl]_vars

\* C21's case: initialize() failed with PermissionDenied on a plugin whose
\* units an earlier initialize() had set, while a measurement was in
\* progress; the units and the measurement are still there.
C21_Witness ==
    /\ op.name = "IntelRAPLPlugin::initialize"
    /\ ~ret.ok
    /\ ret.error = "PermissionDenied"
    /\ rapl.energy_units.num = 1
    /\ IsSome(rapl.measurement_start)

\* C25: get_measurement is a stateless snapshot. It leaves the plugin (the
\* measurement in progress and the cached units) as it was, and it succeeds
\* exactly when the device can be read at both of its reads, whether or not
\* start_measurement was called; the cached units change only in initialize().
C25_GetMeasurementIsStateless ==
    [][/\ op'.name = "IntelRAPLPlugin::get_measurement" =>
              /\ rapl' = rapl
              /\ ret'.ok <=> (Readable(msr) /\ Readable(msr'))
       /\ (\/ rapl'.power_units # rapl.power_units
           \/ rapl'.energy_units # rapl.energy_units
           \/ rapl'.time_units # rapl.time_units) =>
              op'.name = "IntelRAPLPlugin::initialize"]_vars

\* C25's case: get_measurement succeeded with no measurement in progress, on
\* a plugin whose units initialize() had set.
C25_Witness ==
    /\ op.name = "IntelRAPLPlugin::get_measurement"
    /\ ret.ok
    /\ ~IsSome(op.before)
    /\ ~IsSome(rapl.measurement_start)
    /\ rapl.energy_units.num = 1
    /\ ret.value.power_watts.num # 0

\* C24: the adapters' initialize() delegates to the wrapped plugin: it
\* succeeds exactly when the plugin's initialize() does, fails with the
\* plugin's error, and leaves the plugin as the plugin's initialize() leaves
\* it; initialize() and shutdown() called again change nothing more.
C24_AdapterInitializeDelegates ==
    /\ op.name = "EnergyAdapter::initialize" =>
           /\ ret = rapl_initialize(rapl, msr).result
           /\ rapl = rapl_initialize(rapl, msr).plugin
           /\ adapter_initialize(op.adapter, rapl).plugin = rapl
    /\ op.name = "EnergyAdapter::shutdown" =>
           adapter_shutdown(op.adapter, rapl).plugin = rapl

\* What a variant's constructor can return: the plugin it makes, or an error.
ConstructorResults(made) == {made, Err("DeviceNotFound"), Err("Other")}

\* The plugins of a list of constructor results that are Ok, in order.
OkPlugins(results) ==
    LET oks == SelectSeq(results, LAMBDA r : r.ok)
    IN [k \in 1..Len(oks) |-> oks[k].value]

\* C22: PluginRegistry::new never fails. For every combination of success
\* and failure of the four constructors the registry holds exactly the
\* variants whose constructor succeeded, in construction order, a failing
\* constructor not stopping the later ones; and the registry a call of new()
\* returns is the one for what the four constructors of the code return.
C22_RegistryHoldsSucceededVariants ==
    /\ \A intel \in ConstructorResults(IntelRaplPlugin_new),
          amd \in ConstructorResults(AmdEnergyPlugin_new),
          arm \in ConstructorResults(ArmEnergyPlugin_new),
          nvidia \in ConstructorResults(NvidiaGpuPlugin_new) :
           PluginRegistry_of(intel, amd, arm, nvidia) =
               OkPlugins(<<intel, amd, arm, nvidia>>)
    /\ op.name = "PluginRegistry::new" =>
           plugins = OkPlugins(<<IntelRaplPlugin_new, AmdEnergyPlugin_new,
                                 ArmEnergyPlugin_new, NvidiaGpuPlugin_new>>)

\* C22's case: a new registry was made after a caller's plugin had been
\* registered with the old one and listed by get_available_plugins(): the
\* new registry holds the four compiled-in variants and nothing else.
C22_Witness ==
    /\ op.name = "PluginRegistry::new"
    /\ IsSome(available_result)
    /\ Len(Unwrap(available_result)) > Len(plugins)
    /\ Len(plugins) = 4

\* C26: get_source_sessions() returns exactly one session for each source
\* present in both maps and none for a source present in only one; each
\* session holds that source's start and end entries and has total_energy
\* end.joules - start.joules; the totals of the sessions add up to
\* total_energy().
C26_SourceSessionsArePairedSources ==
    LET r == get_source_sessions(multi)
        paired == (DOMAIN multi.start_measurements) \cap (DOMAIN multi.end_measurements)
    IN /\ \A k \in paired : Cardinality({x \in r : x.start.source = k}) = 1
       /\ \A x \in r :
              /\ x.start.source \in paired
              /\ x.start = multi.start_measurements[x.start.source]
              /\ x.end = multi.end_measurements[x.start.source]
              /\ x.total_energy = x.end.joules - x.start.joules
       /\ Cardinality(r) = Cardinality(paired)
       /\ FoldSum(r, [x \in r |-> x.total_energy]) = total_energy(multi)

\* C26's case: source1 is paired with a non-zero delta, source2 has a start
\* entry and no end entry, and get_source_sessions() gives the one session
\* of source1.
C26_Witness ==
    /\ DOMAIN multi.start_measurements = Sources
    /\ DOMAIN multi.end_measurements = {"source1"}
    /\ Cardinality(get_source_sessions(multi)) = 1
    /\ \A x \in get_source_sessions(multi) : x.total_energy # 0

\* Measurements with any timestamp, earlier ones than the clock's included.
MeasurementsAtAnyTime == UNION {MeasurementsAt(t) : t \in Times}

\* C30: in the core MeasurementSession, add_end_measurement(source, m) sets
\* end to m.timestamp, also when m.timestamp is earlier than the end it
\* replaces, and duration to m.timestamp minus the session's creation time,
\* or to 0 when that is negative; add_start_measurement changes none of
\* start, end, duration and total_energy. This holds for every call on every
\* session reached, and the session an add_end_measurement call left shows it.
C30_EndAndDurationFollowLastEnd ==
    /\ \A source \in Sources, m \in MeasurementsAtAnyTime :
           LET e == add_end_measurement(session, source, m)
               s == add_start_measurement(session, source, m)
           IN /\ e.end = m.timestamp
              /\ e.duration = IF m.timestamp - session.start >= 0
                               THEN m.timestamp - session.start ELSE 0
              /\ e.start = session.start
              /\ s.start = session.start
              /\ s.end = session.end
              /\ s.duration = session.duration
              /\ s.total_energy = session.total_energy
    /\ op.name = "add_end_measurement" =>
           /\ session.end = session.end_measurements[op.source].timestamp
           /\ session.duration = IF session.end - session.start >= 0
                                  THEN session.end - session.start ELSE 0

\* C30's case: add_end_measurement has just been called on a session that
\* was created after time 0 and holds a start and an end entry, so that a
\* measurement stamped 0 is earlier than the session's creation and than
\* its end.
C30_Witness ==
    /\ op.name = "add_end_measurement"
    /\ session.start > 0
    /\ session.end > 0
    /\ session.start_measurements # EmptyMap
    /\ session.total_energy # 0

\* C23: session start and stop always terminate. A call of
\* EnergyMonitor.start_measurement or stop_measurement whose plugin read
\* blocks is eventually no longer waiting for that read (the read is
\* abandoned at its timeout and the call returns).
C23_BlockedReadIsAbandoned ==
    IsSome(inflight) ~> ~IsSome(inflight)

\* The last call was stop_measurement of the instrumentation EnergyMonitor.
InstrStopCalled == op.name = "instrumentation::stop_measurement"

\* C27: each energy value that the instrumentation EnergyMonitor's
\* stop_measurement returns is the end reading of a plugin minus the start
\* reading of that same plugin.
C27_DeltaPairsSamePlugin ==
    (InstrStopCalled /\ ret.ok) =>
        \A k \in 1..Len(ret.value) : ret.value[k].start_plugin = ret.value[k].plugin

\* C28: the instrumentation EnergyMonitor's stop_measurement never reads
\* start_measurements past its end: it never panics.
C28_StopNeverPanics ==
    InstrStopCalled => ret # Panicked

\* C29: at most one task at a time is executing on the plugin that an
\* AsyncHardwarePlugin wraps, and every task that called a method of the
\* wrapper eventually returns from it.
C29_MutualExclusionAndProgress ==
    /\ [](Cardinality(mutex.in_plugin) <= 1)
    /\ \A c \in Callers : (mutex.call[c] # "none") ~> (mutex.call[c] = "none")

\* C29's case: one task is executing on the wrapped plugin while the two
\* others wait for the lock, each in a different method.
C29_Witness ==
    /\ Cardinality(mutex.in_plugin) = 1
    /\ Len(mutex.waiters) = 2
    /\ mutex.locked
    /\ \A c \in Callers :
           \A d \in Callers : (c # d /\ mutex.call[c] # "none") => mutex.call[c] # mutex.call[d]

====
